---- MODULE Spec2Model ----
(***************************************************************************)
(* Ragora/CPP-ProgramDump: the maze-solving robot of mazeSolverApp.cpp and  *)
(* the Queue of Queue.h, the LinkedList of LinkedList.cpp and the Stack and *)
(* infixToPostFix of rpnCalculator.cpp.  Each program has its own          *)
(* specification; the variables of the other programs stay as they are     *)
(* initialised.                                                            *)
(*                                                                         *)
(* Representation of size_t.  Vector2D keeps column and row as size_t and  *)
(* builds every sum through its (int, int) constructor.  A size_t value is *)
(* written here as the integer of least absolute value congruent to it     *)
(* modulo 2^64: a value inside the grid is itself and 2^64 - 1 is -1.  For *)
(* magnitudes below 2^31 the addition modulo 2^64, the narrowing to int    *)
(* and the sign extension back to size_t all agree with integer addition   *)
(* on these representatives.  An index is valid only inside 0..count-1, so *)
(* the representative -1 is an index far outside the array.                *)
(*                                                                         *)
(* Undefined behaviour.  A read outside the wall grid and a read through   *)
(* top() of an empty stack yield any value, or a fault; a write outside    *)
(* the video buffer leaves the program in the outcome "Undefined".         *)
(***************************************************************************)
EXTENDS Integers, Sequences, FiniteSets, TLC

\* Largest number of rows of an input maze.
MaxRows == 3
\* Largest number of columns of an input maze.
MaxColumns == 4
\* Largest number of non-wall cells of an input maze.
MaxOpen == 5
\* Largest number of cells carrying the user-exit marker 'O'.
MaxUserExits == 2
\* Number of NodeInformation entries the stack can hold before push fails.
MaxHistory == 32
\* Largest number of non-wall cells of an input file with a row of another length.
MaxRaggedOpen == 1
\* Largest number of Links of the Queue alive at a time.
MaxLinks == 3
\* Largest number of add calls made on the Queue.
MaxAdds == 5
\* The values added to the Queue.
QueueValues == {0, 10, 20}
\* The null pointer.
NULL == 0
\* Number of addresses new can return for the Links of the LinkedList.
MaxListLinks == 3
\* The values stored in the LinkedList.
ListValues == {1, 2}
\* Largest maxElementCount of the Stack under test.
MaxStackSize == 3
\* The values pushed on the Stack under test.
StackValues == {1, 2}
\* Largest number of characters of an infix expression.
MaxInfix == 5
\* The characters of an infix expression.
InfixCharacters == {"a", "b", "+", "-", "*", "/", "(", ")"}

VARIABLES
    lines,             \* the maze file: a sequence of rows of characters
    sRowCount,         \* Maze::sRowCount
    sColumnCount,      \* Maze::sColumnCount
    sMaze,             \* Maze::sMaze: sMaze[row][column] = TRUE for a wall
    entrances,         \* main: entrances (candidate exits after start-up)
    bot,               \* main: bot (position, direction)
    visitedLocations,  \* main: visitedLocations, top of the stack last
    pc,                \* where main is: start, advance, backtrack or an outcome
    path,              \* positions printed when the exit is found, in print order
    ticks,             \* moves and backtrack pops executed so far
    gridReads,         \* indices <<row, column>> of sMaze read by the last step
    startCell,         \* the position the bot was first placed on
    topOfEmpty,        \* top() has been called on an empty visitedLocations
    wild,              \* a value has been read outside sMaze or through that top()
    q1,                \* queueApp main: q1, the members head and tail of the Queue
    queueHeap,         \* the live Links of q1 by address: data and pNext
    popResult,         \* the value the last call of pop returned
    added,             \* the values passed to add, in call order
    returned,          \* the values pop returned from a non-empty Queue, in call order
    departures,        \* the pairs <<cell, direction>> the bot has moved away by
    removed,           \* the last node popped for good from above another node, with
                       \* the position of that node; empty before the first
    list,              \* the LinkedList: its members head and tail
    listHeap,          \* the Links ever allocated by address: data, pNext, deleted
    listPc,            \* "ready", or "Undefined" after undefined behaviour
    listCall,          \* the last call on the LinkedList and what it returned
    stack,             \* the Stack under test: mElementCount, mMaxElementCount, mMemory
    stackCall,         \* the last call on that Stack, what it threw or returned
    infix,             \* main: infix, the characters before the terminating NUL
    postfix,           \* main: result, the string infixToPostFix returned
    rpnPc,             \* "start", "returned", or "thrown" with the exception in rpnThrown
    rpnThrown,         \* the exception infixToPostFix ended with, or "none"
    liveComponents     \* the size of sExpressionComponentSet

mazeVars == <<lines, sRowCount, sColumnCount, sMaze, entrances, bot,
              visitedLocations, pc, path, ticks, gridReads, startCell, topOfEmpty,
              wild, departures, removed>>

queueVars == <<q1, queueHeap, popResult, added, returned>>

listVars == <<list, listHeap, listPc, listCall>>

rpnVars == <<stack, stackCall, infix, postfix, rpnPc, rpnThrown, liveComponents>>

vars == <<mazeVars, queueVars, listVars, rpnVars>>

----------------------------------------------------------------------------
\* Vector2D and directions

Vector2D(column, row) == [column |-> column, row |-> row]

Plus(lhs, rhs) == Vector2D(lhs.column + rhs.column, lhs.row + rhs.row)

Directions == {"DOWN", "UP", "LEFT", "RIGHT"}

directionToVector(direction) ==
    CASE direction = "DOWN"  -> Vector2D(0, 1)
      [] direction = "UP"    -> Vector2D(0, -1)
      [] direction = "LEFT"  -> Vector2D(-1, 0)
      [] direction = "RIGHT" -> Vector2D(1, 0)

\* A valid index pair of sMaze.
InGrid(p) == p.row \in 0..(sRowCount - 1) /\ p.column \in 0..(sColumnCount - 1)

----------------------------------------------------------------------------
\* Reading the file (main, the getline loop)

\* ReadLines without the test of line 318: a row of another length is passed
\* over like an empty line.
RECURSIVE ReadLinesOfAnyLength(_, _, _, _, _)
ReadLinesOfAnyLength(ls, i, columnCount, rowCount, fileBuffer) ==
    IF i > Len(ls)
    THEN [ok |-> TRUE, columnCount |-> columnCount, rowCount |-> rowCount,
          fileBuffer |-> fileBuffer]
    ELSE IF Len(ls[i]) = 0 \/ (columnCount # 0 /\ columnCount # Len(ls[i]))
    THEN ReadLinesOfAnyLength(ls, i + 1, columnCount, rowCount, fileBuffer)
    ELSE ReadLinesOfAnyLength(ls, i + 1, Len(ls[i]), rowCount + 1, fileBuffer \o ls[i])

RECURSIVE ReadLines(_, _, _, _, _)
ReadLines(ls, i, columnCount, rowCount, fileBuffer) ==
    IF i > Len(ls)
    THEN [ok |-> TRUE, columnCount |-> columnCount, rowCount |-> rowCount,
          fileBuffer |-> fileBuffer]
    ELSE IF Len(ls[i]) = 0
    THEN ReadLines(ls, i + 1, columnCount, rowCount, fileBuffer)
    ELSE IF columnCount # 0 /\ columnCount # Len(ls[i])
    THEN [ok |-> FALSE, columnCount |-> columnCount, rowCount |-> rowCount,
          fileBuffer |-> fileBuffer]
    ELSE ReadLines(ls, i + 1, Len(ls[i]), rowCount + 1, fileBuffer \o ls[i])

----------------------------------------------------------------------------
\* Maze::load

\* LoadMaze with the 'O' cells written as walls.
LoadMazeWallingExits(data, rowCount, columnCount) ==
    [row \in 0..(rowCount - 1) |->
        [column \in 0..(columnCount - 1) |->
            data[row * columnCount + column + 1] # " "]]

\* The wall grid written by load for a buffer of rowCount x columnCount cells.
LoadMaze(data, rowCount, columnCount) ==
    [row \in 0..(rowCount - 1) |->
        [column \in 0..(columnCount - 1) |->
            LET ch == data[row * columnCount + column + 1]
            IN  IF ch = "O" THEN FALSE ELSE ch = "X"]]

\* LoadExits keeping only the marked cells of the first and last row and of
\* the first and last column.
LoadExitsOnBoundary(data, columnCount) ==
    LET rowCount == Len(data) \div columnCount
        marked == SelectSeq([i \in 1..Len(data) |-> i - 1],
                            LAMBDA iteration :
                                /\ data[iteration + 1] = "O"
                                /\ \/ iteration % columnCount \in {0, columnCount - 1}
                                   \/ iteration \div columnCount \in {0, rowCount - 1})
    IN  [k \in 1..Len(marked) |->
            [position  |-> Vector2D(marked[k] % columnCount, marked[k] \div columnCount),
             direction |-> "indeterminate"]]

\* The user specified exits returned by load, in buffer order.  Their
\* direction member is never assigned.
LoadExits(data, columnCount) ==
    LET marked == SelectSeq([i \in 1..Len(data) |-> i - 1],
                            LAMBDA iteration : data[iteration + 1] = "O")
    IN  [k \in 1..Len(marked) |->
            [position  |-> Vector2D(marked[k] % columnCount, marked[k] \div columnCount),
             direction |-> "indeterminate"]]

----------------------------------------------------------------------------
\* Maze::findEntryPoints

\* The column loop run for the top and the bottom row.  The else branches
\* written for the middle rows belong to the if inside this loop.
RECURSIVE ScanColumns(_, _, _, _, _)
ScanColumns(maze, rowCount, columnCount, row, column) ==
    IF column >= columnCount THEN << >>
    ELSE IF ~maze[row][column]
    THEN << [position  |-> Vector2D(column, row),
             direction |-> IF row = 0 THEN "DOWN" ELSE "UP"] >>
    ELSE IF ~maze[row][0]
    THEN << [position |-> Vector2D(0, row), direction |-> "RIGHT"] >>
    ELSE IF ~maze[row][columnCount - 1]
    THEN << [position |-> Vector2D(columnCount - 1, row), direction |-> "LEFT"] >>
    ELSE ScanColumns(maze, rowCount, columnCount, row, column + 1)

RECURSIVE ScanRows(_, _, _, _)
ScanRows(maze, rowCount, columnCount, row) ==
    IF row >= rowCount THEN << >>
    ELSE (IF row = 0 \/ row = rowCount - 1
          THEN ScanColumns(maze, rowCount, columnCount, row, 0)
          ELSE << >>)
         \o ScanRows(maze, rowCount, columnCount, row + 1)

findEntryPoints(maze, rowCount, columnCount) ==
    ScanRows(maze, rowCount, columnCount, 0)

----------------------------------------------------------------------------
\* main: start-up

\* TooFewOpenings without its second disjunct: one opening is enough.
NoOpenings(found, userExits) ==
    Len(found) = 0

\* TooFewOpenings without the user exits: two boundary openings are demanded.
TooFewBoundaryOpenings(found, userExits) ==
    Len(found) = 0 \/ Len(found) = 1

\* The test that ends main with "at least two entrances/exits".
TooFewOpenings(found, userExits) ==
    Len(found) = 0 \/ (Len(found) = 1 /\ Len(userExits) = 0)

\* Candidates without the loop that inserts the user specified exits.
CandidatesWithoutUserExits(found, userExits) == Tail(found)

\* The candidate exits: the entrances without the first, then the user exits.
Candidates(found, userExits) == Tail(found) \o userExits

NoBot == [position |-> Vector2D(0, 0), direction |-> "indeterminate"]

Startup ==
    /\ pc = "start"
    /\ LET file == ReadLines(lines, 1, 0, 0, << >>)
       IN  IF ~file.ok
           THEN /\ pc' = "Malformed"
                /\ sRowCount' = file.rowCount
                /\ sColumnCount' = file.columnCount
                /\ UNCHANGED <<sMaze, entrances, bot, startCell>>
           ELSE LET maze      == LoadMaze(file.fileBuffer, file.rowCount, file.columnCount)
                    userExits == LoadExits(file.fileBuffer, file.columnCount)
                    found     == findEntryPoints(maze, file.rowCount, file.columnCount)
                IN  /\ sRowCount' = file.rowCount
                    /\ sColumnCount' = file.columnCount
                    /\ sMaze' = maze
                    /\ IF TooFewOpenings(found, userExits)
                       THEN /\ pc' = "Rejected"
                            /\ entrances' = found
                            /\ UNCHANGED <<bot, startCell>>
                       ELSE /\ pc' = "advance"
                            /\ bot' = [position  |-> found[1].position,
                                       direction |-> found[1].direction]
                            /\ startCell' = found[1].position
                            /\ entrances' = Candidates(found, userExits)
    /\ UNCHANGED <<lines, visitedLocations, path, ticks, gridReads, topOfEmpty, wild,
                   departures, removed>>
    /\ UNCHANGED <<queueVars, listVars, rpnVars>>

----------------------------------------------------------------------------
\* Input mazes

Dims == (1..MaxRows) \X (1..MaxColumns)

CellsOf(d) == (0..(d[2] - 1)) \X (0..(d[1] - 1))

\* The file of a maze of d[1] rows and d[2] columns.
FileOf(d, open, marked) ==
    [r \in 1..d[1] |->
        [c \in 1..d[2] |->
            IF <<c - 1, r - 1>> \in marked THEN "O"
            ELSE IF <<c - 1, r - 1>> \in open THEN " " ELSE "X"]]

\* A row cut to its first n characters, or with one more wall at its end.
Resized(row, n) == IF n <= Len(row) THEN SubSeq(row, 1, n) ELSE row \o << "X" >>

\* The input is a file of equal rows, or a file one of whose rows has another
\* length than the others (an empty line when that length is 0).
Init ==
    /\ \/ \E d \in Dims :
            \E open \in {s \in SUBSET CellsOf(d) : Cardinality(s) <= MaxOpen} :
              \E marked \in {s \in SUBSET open : Cardinality(s) <= MaxUserExits} :
                lines = FileOf(d, open, marked)
       \/ \E d \in Dims :
            \E open \in {s \in SUBSET CellsOf(d) : Cardinality(s) <= MaxRaggedOpen} :
              \E r \in 1..d[1] :
                \E n \in (0..(d[2] + 1)) \ {d[2]} :
                  lines = [FileOf(d, open, {}) EXCEPT ![r] = Resized(@, n)]
    /\ sRowCount = 0
    /\ sColumnCount = 0
    /\ sMaze = << >>
    /\ entrances = << >>
    /\ bot = NoBot
    /\ visitedLocations = << >>
    /\ pc = "start"
    /\ path = << >>
    /\ ticks = 0
    /\ gridReads = {}
    /\ startCell = Vector2D(0, 0)
    /\ topOfEmpty = FALSE
    /\ wild = FALSE
    /\ q1 = [head |-> NULL, tail |-> NULL]
    /\ queueHeap = << >>
    /\ popResult = 0
    /\ added = << >>
    /\ returned = << >>
    /\ departures = {}
    /\ removed = << >>
    /\ list = [head |-> NULL, tail |-> NULL]
    /\ listHeap = << >>
    /\ listPc = "ready"
    /\ listCall = [op |-> "none", position |-> 0, value |-> 0, result |-> FALSE, out |-> 0]
    /\ stack = [mElementCount |-> 0, mMaxElementCount |-> 0, mMemory |-> << >>]
    /\ stackCall = [op |-> "none", input |-> 0, thrown |-> "none", result |-> 0]
    /\ infix = << >>
    /\ postfix = << >>
    /\ rpnPc = "start"
    /\ rpnThrown = "none"
    /\ liveComponents = 0

----------------------------------------------------------------------------
\* main: one pass of the stepping loop

\* "First, have we solved the maze?"
AtExit == \E i \in 1..Len(entrances) : entrances[i].position = bot.position

\* The node of a pass with its position left at the origin.
ScanNodeUnplaced ==
    LET p == bot.position
    IN  [position  |-> Vector2D(0, 0),
         up        |-> p.row # 0 /\ ~sMaze[p.row - 1][p.column],
         down      |-> p.row # sRowCount - 1 /\ ~sMaze[p.row + 1][p.column],
         left      |-> p.column # 0 /\ ~sMaze[p.row][p.column - 1],
         right     |-> p.column # sColumnCount - 1 /\ ~sMaze[p.row][p.column + 1],
         wentLeft  |-> FALSE, wentRight |-> FALSE,
         wentUp    |-> FALSE, wentDown  |-> FALSE]

\* currentNode after the four neighbour tests.
ScanNode ==
    LET p == bot.position
    IN  [position  |-> p,
         up        |-> p.row # 0 /\ ~sMaze[p.row - 1][p.column],
         down      |-> p.row # sRowCount - 1 /\ ~sMaze[p.row + 1][p.column],
         left      |-> p.column # 0 /\ ~sMaze[p.row][p.column - 1],
         right     |-> p.column # sColumnCount - 1 /\ ~sMaze[p.row][p.column + 1],
         wentLeft  |-> FALSE, wentRight |-> FALSE,
         wentUp    |-> FALSE, wentDown  |-> FALSE]

\* The sMaze indices the four neighbour tests read.
ScanReads ==
    LET p == bot.position
    IN  (IF p.row # 0 THEN {<<p.row - 1, p.column>>} ELSE {})
        \cup (IF p.row # sRowCount - 1 THEN {<<p.row + 1, p.column>>} ELSE {})
        \cup (IF p.column # 0 THEN {<<p.row, p.column - 1>>} ELSE {})
        \cup (IF p.column # sColumnCount - 1 THEN {<<p.row, p.column + 1>>} ELSE {})

lookAhead == Plus(bot.position, directionToVector(bot.direction))

\* Every index of sMaze one pass reads: the neighbour tests and lookAhead.
StepReads == ScanReads \cup {<<lookAhead.row, lookAhead.column>>}

\* AheadValues with the wall test inverted.
AheadValuesInverted ==
    IF InGrid(lookAhead) THEN {~sMaze[lookAhead.row][lookAhead.column]} ELSE BOOLEAN

\* The values sMaze[lookAhead.row][lookAhead.column] can yield.
AheadValues ==
    IF InGrid(lookAhead) THEN {sMaze[lookAhead.row][lookAhead.column]} ELSE BOOLEAN

\* A departure that leaves no mark on the node.
MarkWentNothing(node, direction) == node

\* The switch on bot.direction after a move: the departure mark.
MarkWent(node, direction) ==
    CASE direction = "DOWN"  -> [node EXCEPT !.wentDown = TRUE]
      [] direction = "UP"    -> [node EXCEPT !.wentUp = TRUE]
      [] direction = "LEFT"  -> [node EXCEPT !.wentLeft = TRUE]
      [] direction = "RIGHT" -> [node EXCEPT !.wentRight = TRUE]

\* The switch with the second perpendicular direction tried first.
BranchChoiceSecondFirst(node, direction) ==
    IF direction \in {"DOWN", "UP"}
    THEN LET marked == [node EXCEPT !.wentDown = TRUE, !.wentUp = TRUE]
         IN  IF marked.right /\ ~marked.wentRight
             THEN [node |-> [marked EXCEPT !.wentRight = TRUE], direction |-> "RIGHT"]
             ELSE IF marked.left /\ ~marked.wentLeft
             THEN [node |-> [marked EXCEPT !.wentLeft = TRUE], direction |-> "LEFT"]
             ELSE [node |-> marked, direction |-> "none"]
    ELSE LET marked == [node EXCEPT !.wentLeft = TRUE, !.wentRight = TRUE]
         IN  IF marked.down /\ ~marked.wentDown
             THEN [node |-> marked, direction |-> "DOWN"]
             ELSE IF marked.up /\ ~marked.wentUp
             THEN [node |-> marked, direction |-> "UP"]
             ELSE [node |-> marked, direction |-> "none"]

\* The switch taken when the cell ahead is a wall: the node with its marks
\* and the perpendicular direction chosen ("none" when foundBranch stays false).
BranchChoice(node, direction) ==
    IF direction \in {"DOWN", "UP"}
    THEN LET marked == [node EXCEPT !.wentDown = TRUE, !.wentUp = TRUE]
         IN  IF marked.left /\ ~marked.wentLeft
             THEN [node |-> [marked EXCEPT !.wentLeft = TRUE], direction |-> "LEFT"]
             ELSE IF marked.right /\ ~marked.wentRight
             THEN [node |-> [marked EXCEPT !.wentRight = TRUE], direction |-> "RIGHT"]
             ELSE [node |-> marked, direction |-> "none"]
    ELSE LET marked == [node EXCEPT !.wentLeft = TRUE, !.wentRight = TRUE]
         IN  IF marked.up /\ ~marked.wentUp
             THEN [node |-> marked, direction |-> "UP"]
             ELSE IF marked.down /\ ~marked.wentDown
             THEN [node |-> marked, direction |-> "DOWN"]
             ELSE [node |-> marked, direction |-> "none"]

\* The move that adds the direction to the position twice.
MoveTwiceAndPush(node, direction) ==
    /\ bot' = [position  |-> Plus(Plus(bot.position, directionToVector(direction)),
                                  directionToVector(direction)),
               direction |-> direction]
    /\ departures' = departures \cup {<<bot.position, direction>>}
    /\ UNCHANGED removed
    /\ ticks' = ticks + 1
    /\ IF Len(visitedLocations) < MaxHistory
       THEN /\ visitedLocations' = Append(visitedLocations, MarkWent(node, direction))
            /\ pc' = "advance"
       ELSE /\ pc' = "Exhausted"
            /\ UNCHANGED visitedLocations

\* "Update the bot position", the departure mark and the push.  The push
\* fails (std::bad_alloc) once the stack holds MaxHistory entries.
MoveAndPush(node, direction) ==
    /\ bot' = [position  |-> Plus(bot.position, directionToVector(direction)),
               direction |-> direction]
    /\ departures' = departures \cup {<<bot.position, direction>>}
    /\ UNCHANGED removed
    /\ ticks' = ticks + 1
    /\ IF Len(visitedLocations) < MaxHistory
       THEN /\ visitedLocations' = Append(visitedLocations, MarkWent(node, direction))
            /\ pc' = "advance"
       ELSE /\ pc' = "Exhausted"
            /\ UNCHANGED visitedLocations

\* The exit is found: the stack is printed from the top and emptied.
GoalCheck ==
    /\ pc = "advance"
    /\ AtExit
    /\ path' = [i \in 1..Len(visitedLocations) |->
                   visitedLocations[Len(visitedLocations) + 1 - i].position]
    /\ visitedLocations' = << >>
    /\ pc' = "Solved"
    /\ UNCHANGED <<lines, sRowCount, sColumnCount, sMaze, entrances, bot, ticks,
                   gridReads, startCell, topOfEmpty, wild, departures, removed>>
    /\ UNCHANGED <<queueVars, listVars, rpnVars>>

\* The cell ahead is read as open and lies in the grid: the bot moves on.
MoveAhead ==
    /\ pc = "advance"
    /\ ~AtExit
    /\ InGrid(lookAhead)
    /\ FALSE \in AheadValues
    /\ gridReads' = StepReads
    /\ MoveAndPush(ScanNode, bot.direction)
    /\ UNCHANGED <<lines, sRowCount, sColumnCount, sMaze, entrances, path,
                   startCell, topOfEmpty, wild>>
    /\ UNCHANGED <<queueVars, listVars, rpnVars>>

\* The cell ahead is read as a wall and a perpendicular branch is open.
Branch ==
    /\ pc = "advance"
    /\ ~AtExit
    /\ TRUE \in AheadValues
    /\ LET choice == BranchChoice(ScanNode, bot.direction)
       IN  /\ choice.direction # "none"
           /\ MoveAndPush(choice.node, choice.direction)
    /\ gridReads' = StepReads
    /\ wild' = (wild \/ ~InGrid(lookAhead))
    /\ UNCHANGED <<lines, sRowCount, sColumnCount, sMaze, entrances, path,
                   startCell, topOfEmpty>>
    /\ UNCHANGED <<queueVars, listVars, rpnVars>>

\* The cell ahead is read as a wall and no branch is found: the backtracking
\* loop is entered, or skipped with "Bot got stuck" when the stack is empty.
DeadEnd ==
    /\ pc = "advance"
    /\ ~AtExit
    /\ TRUE \in AheadValues
    /\ BranchChoice(ScanNode, bot.direction).direction = "none"
    /\ gridReads' = StepReads
    /\ pc' = IF visitedLocations = << >> THEN "Stuck" ELSE "backtrack"
    /\ wild' = (wild \/ ~InGrid(lookAhead))
    /\ UNCHANGED <<lines, sRowCount, sColumnCount, sMaze, entrances, bot,
                   visitedLocations, path, ticks, startCell, topOfEmpty, departures, removed>>
    /\ UNCHANGED <<queueVars, listVars, rpnVars>>

\* lookAhead lies outside the grid and the read does not come back as a
\* wall: either the read faults, or it yields "open" and the bot is moved to
\* lookAhead, where 'B' is written outside the video buffer.
OffGrid ==
    /\ pc = "advance"
    /\ ~AtExit
    /\ ~InGrid(lookAhead)
    /\ gridReads' = StepReads
    /\ pc' = "Undefined"
    /\ wild' = TRUE
    /\ \/ UNCHANGED bot
       \/ bot' = [bot EXCEPT !.position = lookAhead]
    /\ UNCHANGED <<lines, sRowCount, sColumnCount, sMaze, entrances,
                   visitedLocations, path, ticks, startCell, topOfEmpty, departures, removed>>
    /\ UNCHANGED <<queueVars, listVars, rpnVars>>

----------------------------------------------------------------------------
\* main: one pass of the backtracking loop

\* The positions nextStep.position can hold when nextStep is top() of an
\* empty stack: any cell of the grid or next to it, or a value ("elsewhere")
\* that equals no position compared with it.
Elsewhere == Vector2D(-2, -2)

StrayPositions ==
    {Vector2D(c, r) : c \in (-1)..sColumnCount, r \in (-1)..sRowCount} \cup {Elsewhere}

\* The chain over currentStep without the comparison with nextStep.
RetryDirectionUnguarded(currentStep, nextPosition) ==
    IF currentStep.down /\ ~currentStep.wentDown THEN "DOWN"
    ELSE IF currentStep.up /\ ~currentStep.wentUp THEN "UP"
    ELSE IF currentStep.left /\ ~currentStep.wentLeft THEN "LEFT"
    ELSE IF currentStep.right /\ ~currentStep.wentRight THEN "RIGHT"
    ELSE "none"

\* The chain over currentStep that gives up at the first direction refused.
RetryDirectionFirstOnly(currentStep, nextPosition) ==
    IF currentStep.down /\ ~currentStep.wentDown
       /\ nextPosition # Plus(currentStep.position, directionToVector("DOWN"))
    THEN "DOWN"
    ELSE "none"

\* The chain over currentStep evaluated in the order right, left, up, down.
RetryDirectionReversed(currentStep, nextPosition) ==
    IF currentStep.right /\ ~currentStep.wentRight
       /\ nextPosition # Plus(currentStep.position, directionToVector("RIGHT"))
    THEN "RIGHT"
    ELSE IF currentStep.left /\ ~currentStep.wentLeft
       /\ nextPosition # Plus(currentStep.position, directionToVector("LEFT"))
    THEN "LEFT"
    ELSE IF currentStep.up /\ ~currentStep.wentUp
       /\ nextPosition # Plus(currentStep.position, directionToVector("UP"))
    THEN "UP"
    ELSE IF currentStep.down /\ ~currentStep.wentDown
       /\ nextPosition # Plus(currentStep.position, directionToVector("DOWN"))
    THEN "DOWN"
    ELSE "none"

\* The if / else-if chain over currentStep: the first direction, in the order
\* down, up, left, right, that is open, not yet taken and does not lead to
\* nextStep ("none" when foundBranch stays false).
RetryDirection(currentStep, nextPosition) ==
    IF currentStep.down /\ ~currentStep.wentDown
       /\ nextPosition # Plus(currentStep.position, directionToVector("DOWN"))
    THEN "DOWN"
    ELSE IF currentStep.up /\ ~currentStep.wentUp
       /\ nextPosition # Plus(currentStep.position, directionToVector("UP"))
    THEN "UP"
    ELSE IF currentStep.left /\ ~currentStep.wentLeft
       /\ nextPosition # Plus(currentStep.position, directionToVector("LEFT"))
    THEN "LEFT"
    ELSE IF currentStep.right /\ ~currentStep.wentRight
       /\ nextPosition # Plus(currentStep.position, directionToVector("RIGHT"))
    THEN "RIGHT"
    ELSE "none"

\* nextStep.position is read: some direction passes the two tests before it.
ReadsNextStep(currentStep) ==
    \/ currentStep.down /\ ~currentStep.wentDown
    \/ currentStep.up /\ ~currentStep.wentUp
    \/ currentStep.left /\ ~currentStep.wentLeft
    \/ currentStep.right /\ ~currentStep.wentRight

BacktrackStep ==
    /\ pc = "backtrack"
    /\ LET currentStep == visitedLocations[Len(visitedLocations)]
           popped      == SubSeq(visitedLocations, 1, Len(visitedLocations) - 1)
       IN  /\ topOfEmpty' = (topOfEmpty \/ popped = << >>)
           /\ wild' = (wild \/ (popped = << >> /\ ReadsNextStep(currentStep)))
           /\ \/ \E nextPosition \in
                     (IF popped = << >> THEN StrayPositions
                      ELSE {popped[Len(popped)].position}) :
                    LET direction == RetryDirection(currentStep, nextPosition)
                    IN  /\ bot' = [position  |-> currentStep.position,
                                   direction |-> IF direction = "none"
                                                 THEN bot.direction ELSE direction]
                        /\ visitedLocations' =
                              IF direction = "none" THEN popped
                              ELSE Append(popped, MarkWent(currentStep, direction))
                        /\ pc' = IF direction # "none" THEN "advance"
                                 ELSE IF popped = << >> THEN "Stuck" ELSE "backtrack"
                        /\ ticks' = ticks + 1
                        /\ removed' = IF direction = "none" /\ popped # << >>
                                      THEN <<[node |-> currentStep, below |-> nextPosition]>>
                                      ELSE removed
              \/ /\ popped = << >>
                 /\ ReadsNextStep(currentStep)
                 /\ pc' = "Undefined"
                 /\ visitedLocations' = popped
                 /\ UNCHANGED <<bot, ticks, removed>>
    /\ UNCHANGED <<lines, sRowCount, sColumnCount, sMaze, entrances, path,
                   gridReads, startCell, departures>>
    /\ UNCHANGED <<queueVars, listVars, rpnVars>>

----------------------------------------------------------------------------

Next ==
    \/ Startup
    \/ GoalCheck
    \/ MoveAhead
    \/ Branch
    \/ DeadEnd
    \/ OffGrid
    \/ BacktrackStep

Spec == Init /\ [][Next]_vars

\* The mazes without user-exit markers, on which liveness is checked.
FairInit ==
    /\ Init
    /\ \A r \in 1..Len(lines) : \A c \in 1..Len(lines[r]) : lines[r][c] # "O"

\* The stepping loop never waits: a pass that can run does run.
FairSpec == FairInit /\ [][Next]_vars /\ WF_vars(Next)

----------------------------------------------------------------------------
\* The input maze as the file states it, for the properties below

\* The rows of the file: its lines that are not empty.
FileLines == SelectSeq(lines, LAMBDA line : Len(line) > 0)

FileRows == Len(FileLines)

FileColumns == IF FileRows = 0 THEN 0 ELSE Len(FileLines[1])

FileCells == {Vector2D(c, r) : c \in 0..(FileColumns - 1), r \in 0..(FileRows - 1)}

CharAt(p) == FileLines[p.row + 1][p.column + 1]

\* Cells that are not walls, and cells carrying the user-exit marker.
OpenCells == {p \in FileCells : CharAt(p) # "X"}

MarkedCells == {p \in FileCells : CharAt(p) = "O"}

\* Two cells one unit apart in exactly one axis.
Adjacent(p, q) ==
    \/ p.column = q.column /\ (p.row - q.row) \in {-1, 1}
    \/ p.row = q.row /\ (p.column - q.column) \in {-1, 1}

\* The open cells joined to the cells of "from" by 4-adjacent open cells.
RECURSIVE Connected(_)
Connected(from) ==
    LET more == {p \in OpenCells : \E q \in from : Adjacent(p, q)}
    IN  IF more \subseteq from THEN from ELSE Connected(from \cup more)

\* main has passed start-up and placed the bot.
Started == pc \in {"advance", "backtrack", "Solved", "Stuck", "Undefined", "Exhausted"}

\* The openings the boundary scan finds in the loaded grid.
Found == findEntryPoints(sMaze, sRowCount, sColumnCount)

\* The remaining candidate exits as cells: the scanned openings other than
\* the start, and every marked cell.
ExitCells == ({Found[i].position : i \in 1..Len(Found)} \ {startCell}) \cup MarkedCells

----------------------------------------------------------------------------
C2_StuckMeansNoPath ==
    pc = "Stuck" => Connected({startCell}) \cap ExitCells = {}

\* C3: every read of the wall grid uses a row in [0, rowCount) and a column in
\* [0, columnCount).
C3_ReadsInsideGrid ==
    \A rc \in gridReads :
        rc[1] \in 0..(sRowCount - 1) /\ rc[2] \in 0..(sColumnCount - 1)

\* C4: Solved is reported at a pass exactly when the robot's cell at the start
\* of the pass is the cell of a remaining opening, and the robot never moves
\* away from such a cell.
C4_SolvedIffOnExit ==
    [][ /\ (pc \in {"advance", "backtrack"} /\ bot.position \in ExitCells)
            => (pc' = "Solved" /\ bot' = bot)
        /\ (pc' = "Solved" /\ pc # "Solved") => bot.position \in ExitCells ]_vars

\* Solved on a user-marked cell after a backtrack and without any wild read.
C4_Witness ==
    pc = "Solved" /\ ticks >= 2 /\ bot.position \in MarkedCells /\ ~wild

\* C5: in the path emitted on Solved, every two consecutive cells differ by
\* exactly one unit in exactly one axis.  Runs with a wild read are granted to
\* the claim.
C5_PathStepsAreUnit ==
    (pc = "Solved" /\ ~wild) => \A i \in 1..(Len(path) - 1) : Adjacent(path[i], path[i + 1])

\* C6: every cell of the path emitted on Solved is a non-wall cell of the grid.
C6_PathCellsOpen ==
    pc = "Solved" => \A i \in 1..Len(path) : path[i] \in OpenCells

\* A path of three cells or more is emitted after defined steps only.
C6_Witness ==
    pc = "Solved" /\ Len(path) >= 3 /\ ~wild

\* C7: the number of ticks (moves and backtrack pops) never exceeds
\* rows x columns x 4.  Runs with a wild read are granted to the claim.
C7_TickBound ==
    (Started /\ ~wild) => ticks <= sRowCount * sColumnCount * 4

\* C8: after the start opening is selected no candidate exit has the start
\* cell's position, and Solved is never reported on the start cell.
C8_StartNotCandidate ==
    Started => /\ \A i \in 1..Len(entrances) : entrances[i].position # startCell
               /\ pc = "Solved" => bot.position # startCell

\* C9 as claimed: start-up is rejected exactly when the openings found by the
\* scan and the user-marked exits number fewer than two in total.
C9_RejectedIffFewerThanTwo ==
    pc \in {"Rejected"} \cup {"advance", "backtrack", "Solved", "Stuck", "Undefined", "Exhausted"}
        => (pc = "Rejected" <=> Len(Found) + Cardinality(MarkedCells) < 2)

\* C9 as amended: start-up is rejected exactly when the scan finds no boundary
\* opening, or finds exactly one and there is no user-marked exit.
C9_RejectedIffNoEntranceOrLoneOpening ==
    (pc = "Rejected" \/ Started)
        => (pc = "Rejected" <=>
               (Len(Found) = 0 \/ (Len(Found) = 1 /\ Cardinality(MarkedCells) = 0)))

\* Rejected with no boundary opening although two cells are marked.
C9_Witness ==
    pc = "Rejected" /\ Len(Found) = 0 /\ Cardinality(MarkedCells) = 2

\* C10: for row 0 and for the last row, when the row has an open cell the scan
\* records exactly one opening for it: its leftmost open cell, heading Down
\* for row 0 and Up for the last row.
RowOpen(row) == {p \in OpenCells : p.row = row}

Leftmost(row) == CHOOSE p \in RowOpen(row) : \A q \in RowOpen(row) : p.column <= q.column

C10_EdgeRowLeftmost ==
    (pc = "Rejected" \/ Started)
        => \A row \in {0, sRowCount - 1} :
              RowOpen(row) # {}
                  => SelectSeq(Found, LAMBDA e : e.position.row = row)
                       = << [position  |-> Leftmost(row),
                             direction |-> IF row = 0 THEN "DOWN" ELSE "UP"] >>

----------------------------------------------------------------------------
\* main has passed the getline loop and Maze::load has built the grid.
Loaded == pc \notin {"start", "Malformed"}

\* A cell of the first or last row or of the first or last column.
Boundary(p) == p.row \in {0, FileRows - 1} \/ p.column \in {0, FileColumns - 1}

\* The rows that are neither row 0 nor the last row.
InteriorRows == 1..(FileRows - 2)

\* The row has an open cell in column 0 or in the last column.
SideOpen(row) ==
    Vector2D(0, row) \in OpenCells \/ Vector2D(FileColumns - 1, row) \in OpenCells

\* C11: the first interior row with an open cell in column 0 or in the last
\* column yields an opening in the scan's result: the column-0 cell heading
\* Right when that cell is open, otherwise the last-column cell heading Left.
C11_InteriorRowSides ==
    Loaded =>
        \A row \in InteriorRows :
            (SideOpen(row) /\ \A before \in 1..(row - 1) : ~SideOpen(before))
                => \E i \in 1..Len(Found) :
                      Found[i] = IF Vector2D(0, row) \in OpenCells
                                 THEN [position  |-> Vector2D(0, row),
                                       direction |-> "RIGHT"]
                                 ELSE [position  |-> Vector2D(FileColumns - 1, row),
                                       direction |-> "LEFT"]

\* C12: every opening the scan returns is a non-wall cell on the boundary of
\* the grid, and the cell one step from it in its direction lies inside the
\* grid.
C12_OpeningsInward ==
    Loaded =>
        \A i \in 1..Len(Found) :
            /\ Found[i].position \in OpenCells
            /\ Boundary(Found[i].position)
            /\ Plus(Found[i].position, directionToVector(Found[i].direction)) \in FileCells

\* The open cells on the boundary of the grid.
BoundaryOpen == {p \in OpenCells : Boundary(p)}

\* C13: when the grid has exactly one open boundary cell and no user-marked
\* exit, start-up ends with the insufficient-openings error: no tick is
\* executed, and the robot and the History are as they were constructed.
C13_LoneOpeningRejected ==
    (Loaded /\ Cardinality(BoundaryOpen) = 1 /\ MarkedCells = {})
        => /\ pc = "Rejected"
           /\ ticks = 0
           /\ bot = NoBot
           /\ visitedLocations = << >>

\* Rejected with the lone boundary opening found by the scan.
C13_Witness ==
    /\ pc = "Rejected"
    /\ Cardinality(BoundaryOpen) = 1
    /\ MarkedCells = {}
    /\ Len(Found) = 1

\* Some non-empty row of the file has another length than the first one.
Ragged == \E i \in 1..Len(FileLines) : Len(FileLines[i]) # Len(FileLines[1])

C15_MarkedCellsAreExits ==
    /\ Loaded => \A p \in MarkedCells : ~sMaze[p.row][p.column]
    /\ Started =>
          /\ \A p \in MarkedCells :
                \E i \in 1..Len(entrances) : entrances[i].position = p
          /\ bot.position \in MarkedCells => (pc = "Solved" \/ (pc = "advance" /\ AtExit))

\* Solved on a user-marked cell that is not on the boundary.
C15_Witness ==
    /\ pc = "Solved"
    /\ bot.position \in MarkedCells
    /\ ~Boundary(bot.position)
    /\ ~wild

\* main has returned, or has left defined behaviour.
Ended == pc \in {"Malformed", "Rejected", "Solved", "Stuck", "Undefined", "Exhausted"}

\* The 3x3 grid whose four corners are walls and whose other cells are open.
ScenarioA ==
    FileLines = << << "X", " ", "X" >>, << " ", " ", " " >>, << "X", " ", "X" >> >>

\* C16: on the grid of Scenario A the run ends with Solved, after at most 9
\* ticks and with an emitted path of at least 3 cells.
C16_ScenarioASolved ==
    (ScenarioA /\ Ended) => (pc = "Solved" /\ ticks <= 9 /\ Len(path) >= 3)

\* The open cells are exactly one whole row or exactly one whole column of a
\* grid, two cells or more: a straight corridor between two boundary cells.
Corridor ==
    /\ Cardinality(OpenCells) >= 2
    /\ \/ \E row \in 0..(FileRows - 1) : OpenCells = {p \in FileCells : p.row = row}
       \/ \E column \in 0..(FileColumns - 1) :
             OpenCells = {p \in FileCells : p.column = column}

\* C17: on a straight corridor of L cells the backtracking phase is never
\* entered and the run ends with Solved after exactly L - 1 ticks.
C17_CorridorSolved ==
    (Loaded /\ Corridor)
        => /\ pc # "backtrack"
           /\ Ended => (pc = "Solved" /\ ticks = Cardinality(OpenCells) - 1)

\* The robot is on the entrance cell before any tick, History is empty, the
\* cell ahead is a wall of the grid and no perpendicular neighbour is open.
DeadEndAtEntrance ==
    /\ pc = "advance"
    /\ ticks = 0
    /\ visitedLocations = << >>
    /\ bot.position = startCell
    /\ InGrid(lookAhead)
    /\ lookAhead \notin OpenCells
    /\ \A p \in OpenCells :
          Adjacent(p, bot.position) => (p.column = lookAhead.column \/ p.row = lookAhead.row)

\* C18: from a dead end at the entrance the first tick reports Stuck, without
\* moving the robot and without touching History.
C18_DeadEndAtEntranceStuck ==
    [][ DeadEndAtEntrance
            => (pc' = "Stuck" /\ bot' = bot /\ visitedLocations' = << >> /\ ticks' = 0) ]_vars

----------------------------------------------------------------------------
\* Queue.h: Queue<int>, driven by any sequence of add and pop calls

\* The addresses new can return.
Addresses == 1..MaxLinks

\* Queue::isEmpty
Queue_isEmpty == ~(q1.head # NULL /\ q1.tail # NULL)

\* The Link at an address.
LinkAt(pointer) == queueHeap[pointer]

\* The values of the Links from a pointer on, following pNext: the order in
\* which operator<< writes them.
RECURSIVE ValuesFrom(_)
ValuesFrom(current) ==
    IF current = NULL THEN << >>
    ELSE << LinkAt(current).data >> \o ValuesFrom(LinkAt(current).pNext)

\* operator<<: the values written for the Queue.
Queue_contents == IF Queue_isEmpty THEN << >> ELSE ValuesFrom(q1.head)

\* Queue::add.  new returns any address that is not in use.
Queue_add(value) ==
    /\ Len(added) < MaxAdds
    /\ \E newLink \in Addresses \ DOMAIN queueHeap :
          LET link == [data |-> value, pNext |-> NULL]
          IN  IF Queue_isEmpty
              THEN /\ queueHeap' = (newLink :> link) @@ queueHeap
                   /\ q1' = [head |-> newLink, tail |-> newLink]
              ELSE /\ queueHeap' = (newLink :> link) @@
                                     [queueHeap EXCEPT ![q1.tail].pNext = newLink]
                   /\ q1' = [q1 EXCEPT !.tail = newLink]
    /\ added' = Append(added, value)
    /\ UNCHANGED <<popResult, returned>>
    /\ UNCHANGED <<mazeVars, listVars, rpnVars>>

\* The heap without the Link at an address: delete.
Delete(pointer) == [a \in DOMAIN queueHeap \ {pointer} |-> queueHeap[a]]

\* PoppedData reading the tail instead of the head.
PoppedDataFromTail == LinkAt(q1.tail).data

\* result = this->head->getData()
PoppedData == LinkAt(q1.head).data

\* Queue::pop
Queue_pop ==
    /\ IF Queue_isEmpty
       THEN /\ popResult' = 0
            /\ UNCHANGED <<q1, queueHeap, returned>>
       ELSE /\ popResult' = PoppedData
            /\ returned' = Append(returned, PoppedData)
            /\ queueHeap' = Delete(q1.head)
            /\ q1' = IF q1.head = q1.tail
                     THEN [head |-> NULL, tail |-> NULL]
                     ELSE [q1 EXCEPT !.head = LinkAt(q1.head).pNext]
    /\ UNCHANGED added
    /\ UNCHANGED <<mazeVars, listVars, rpnVars>>

\* The Queue starts empty; the maze program is not run.
QueueInit ==
    /\ q1 = [head |-> NULL, tail |-> NULL]
    /\ queueHeap = << >>
    /\ popResult = 0
    /\ added = << >>
    /\ returned = << >>
    /\ lines = << >>
    /\ sRowCount = 0
    /\ sColumnCount = 0
    /\ sMaze = << >>
    /\ entrances = << >>
    /\ bot = NoBot
    /\ visitedLocations = << >>
    /\ pc = "start"
    /\ path = << >>
    /\ ticks = 0
    /\ gridReads = {}
    /\ startCell = Vector2D(0, 0)
    /\ topOfEmpty = FALSE
    /\ wild = FALSE
    /\ departures = {}
    /\ removed = << >>
    /\ list = [head |-> NULL, tail |-> NULL]
    /\ listHeap = << >>
    /\ listPc = "ready"
    /\ listCall = [op |-> "none", position |-> 0, value |-> 0, result |-> FALSE, out |-> 0]
    /\ stack = [mElementCount |-> 0, mMaxElementCount |-> 0, mMemory |-> << >>]
    /\ stackCall = [op |-> "none", input |-> 0, thrown |-> "none", result |-> 0]
    /\ infix = << >>
    /\ postfix = << >>
    /\ rpnPc = "start"
    /\ rpnThrown = "none"
    /\ liveComponents = 0

QueueNext ==
    \/ \E value \in QueueValues : Queue_add(value)
    \/ Queue_pop

QueueSpec == QueueInit /\ [][QueueNext]_vars

----------------------------------------------------------------------------
\* LinkedList.cpp: the LinkedList of int, driven by any sequence of calls.
\*
\* A Link that has been deleted keeps its address and, until new returns that
\* address again, its last contents.  Reading or writing a deleted Link is
\* undefined: the call either proceeds on those contents or the program is
\* in the outcome "Undefined".  Dereferencing NULL, deleting a deleted Link
\* and a loop that never ends are "Undefined".

ListAddresses == 1..MaxListLinks

\* The positions passed to the calls that take one.
ListPositions == 0..(MaxListLinks + 1)

\* The addresses new can return: never used, or deleted.
Free(h) == {a \in ListAddresses : a \notin DOMAIN h \/ h[a].deleted}

\* What new returns: a free address, or NULL here for the throw of bad_alloc.
Allocations(h) == IF Free(h) = {} THEN {NULL} ELSE Free(h)

\* Link::Link at address a
NewLink(h, a, value, pointer) ==
    [x \in DOMAIN h \cup {a} |->
        IF x = a THEN [data |-> value, pNext |-> pointer, deleted |-> FALSE] ELSE h[x]]

\* Link::setNext
SetNext(h, link, pointer) == [h EXCEPT ![link].pNext = pointer]

\* delete
DeleteLink(h, link) == [h EXCEPT ![link].deleted = TRUE]

\* What a call leaves: the members, the heap, the value returned, the value
\* assigned to the reference parameter, and "none", "stale" (a deleted Link
\* was read or written) or "fault".
Outcome(head, tail, h, result, out, ub) ==
    [head |-> head, tail |-> tail, heap |-> h, result |-> result, out |-> out, ub |-> ub]

Fault(l, h) == Outcome(l.head, l.tail, h, FALSE, 0, "fault")

Stale(flag) == IF flag THEN "stale" ELSE "none"

\* LinkedList::isEmpty
LinkedList_isEmpty(l) == ~(l.head # NULL /\ l.tail # NULL)

\* The loop "for (...; iteration <= position && pCurrent; iteration++)" run
\* for at most the given number of steps.
RECURSIVE Walk(_, _, _, _, _)
Walk(h, pLast, pCurrent, steps, stale) ==
    IF steps = 0 \/ pCurrent = NULL
    THEN [pLast |-> pLast, pCurrent |-> pCurrent, stale |-> stale]
    ELSE Walk(h, pCurrent, h[pCurrent].pNext, steps - 1, stale \/ h[pCurrent].deleted)

\* LinkedList::addToHead with new returning a
addToHead(l, h, a, value) ==
    IF a = NULL THEN Outcome(l.head, l.tail, h, FALSE, 0, "none")
    ELSE LET h1 == NewLink(h, a, value, NULL)
         IN  IF l.head = NULL
             THEN Outcome(a, a, h1, TRUE, 0, "none")
             ELSE Outcome(a, l.tail, SetNext(h1, a, l.head), TRUE, 0, "none")

\* LinkedList::addToTail with new returning a
addToTail(l, h, a, value) ==
    IF a = NULL THEN Outcome(l.head, l.tail, h, FALSE, 0, "none")
    ELSE LET h1 == NewLink(h, a, value, NULL)
         IN  IF l.tail = NULL
             THEN Outcome(a, a, h1, TRUE, 0, "none")
             ELSE Outcome(l.head, a, SetNext(h1, l.tail, a), TRUE, 0,
                          Stale(h[l.tail].deleted))

\* LinkedList::addAt with new returning a
addAt(l, h, a, position, value) ==
    IF position < 1 \/ LinkedList_isEmpty(l)
    THEN addToHead(l, h, a, value)
    ELSE LET w == Walk(h, NULL, l.head, position, FALSE)
         IN  IF w.pCurrent # NULL
             THEN IF a = NULL
                  THEN Outcome(l.head, l.tail, h, FALSE, 0, Stale(w.stale))
                  ELSE LET h1 == NewLink(h, a, value, w.pCurrent)
                           h2 == IF w.pLast # NULL THEN SetNext(h1, w.pLast, a) ELSE h1
                       IN  Outcome(IF w.pCurrent = l.head THEN a ELSE l.head, l.tail, h2,
                                   TRUE, 0,
                                   Stale(w.stale \/ (w.pLast # NULL /\ h1[w.pLast].deleted)))
             ELSE LET o == addToTail(l, h, a, value)
                  IN  [o EXCEPT !.ub = IF w.stale THEN "stale" ELSE @]

\* LinkedList::getDataAtHead
getDataAtHead(l, h) ==
    IF l.head = NULL THEN Outcome(l.head, l.tail, h, FALSE, 0, "none")
    ELSE Outcome(l.head, l.tail, h, TRUE, h[l.head].data, Stale(h[l.head].deleted))

\* LinkedList::getDataAtTail
getDataAtTail(l, h) ==
    IF l.tail = NULL THEN Outcome(l.head, l.tail, h, FALSE, 0, "none")
    ELSE Outcome(l.head, l.tail, h, TRUE, h[l.tail].data, Stale(h[l.tail].deleted))

\* LinkedList::getDataAt
getDataAt(l, h, position) ==
    IF position < 1 THEN Outcome(l.head, l.tail, h, FALSE, 0, "none")
    ELSE LET w == Walk(h, NULL, l.head, position, FALSE)
         IN  IF w.pCurrent # NULL
             THEN Outcome(l.head, l.tail, h, TRUE, h[w.pCurrent].data,
                          Stale(w.stale \/ h[w.pCurrent].deleted))
             ELSE Outcome(l.head, l.tail, h, FALSE, 0, Stale(w.stale))

\* LinkedList::removeDataAtHead: head is deleted and then read.
removeDataAtHead(l, h) ==
    IF l.head = NULL THEN Outcome(l.head, l.tail, h, FALSE, 0, "none")
    ELSE IF h[l.head].deleted THEN Fault(l, h)
    ELSE Outcome(h[l.head].pNext, IF l.head = l.tail THEN NULL ELSE l.tail,
                 DeleteLink(h, l.head), TRUE, 0, "stale")

\* The loop "while ((pCurrent = pCurrent->getNext()) != this->tail)
\* pLast = pCurrent;" with fuel for the Links it can pass.
RECURSIVE Seek(_, _, _, _, _, _)
Seek(h, tail, pLast, pCurrent, fuel, stale) ==
    IF pCurrent = NULL \/ fuel = 0
    THEN [fault |-> TRUE, pLast |-> pLast, pCurrent |-> pCurrent, stale |-> stale]
    ELSE LET next == h[pCurrent].pNext
             read == stale \/ h[pCurrent].deleted
         IN  IF next = tail
             THEN [fault |-> FALSE, pLast |-> pLast, pCurrent |-> next, stale |-> read]
             ELSE Seek(h, tail, next, next, fuel - 1, read)

\* LinkedList::removeDataAtTail
removeDataAtTail(l, h) ==
    IF l.tail = NULL THEN Outcome(l.head, l.tail, h, FALSE, 0, "none")
    ELSE LET s == Seek(h, l.tail, NULL, l.head, MaxListLinks + 1, FALSE)
         IN  IF s.fault \/ s.pLast = NULL \/ h[s.pCurrent].deleted
             THEN Fault(l, h)
             ELSE Outcome(l.head, l.tail, DeleteLink(SetNext(h, s.pLast, NULL), s.pCurrent),
                          TRUE, 0, Stale(s.stale \/ h[s.pLast].deleted))

\* LinkedList::removeDataAtPosition
removeDataAtPosition(l, h, position) ==
    IF position < 1 THEN Outcome(l.head, l.tail, h, FALSE, 0, "none")
    ELSE LET w == Walk(h, NULL, l.head, position, FALSE)
         IN  IF w.pCurrent = NULL
             THEN Outcome(l.head, l.tail, h, FALSE, 0, Stale(w.stale))
             ELSE IF h[w.pCurrent].deleted THEN Fault(l, h)
             ELSE LET h1 == IF w.pLast # NULL
                            THEN SetNext(h, w.pLast, h[w.pCurrent].pNext) ELSE h
                  IN  Outcome(l.head, l.tail, DeleteLink(h1, w.pCurrent), TRUE, 0,
                              Stale(w.stale \/ (w.pLast # NULL /\ h[w.pLast].deleted)))

\* The end of a call: its outcome becomes the state.  After a fault the
\* program is in "Undefined"; after a read or write of a deleted Link it is
\* either there or goes on with what the Link last held.
Return(op, position, value, o) ==
    /\ \/ /\ o.ub # "fault"
          /\ list' = [head |-> o.head, tail |-> o.tail]
          /\ listHeap' = o.heap
          /\ listPc' = "ready"
          /\ listCall' = [op |-> op, position |-> position, value |-> value,
                          result |-> o.result, out |-> o.out]
       \/ /\ o.ub # "none"
          /\ listPc' = "Undefined"
          /\ listCall' = [op |-> op, position |-> position, value |-> value,
                          result |-> FALSE, out |-> 0]
          /\ UNCHANGED <<list, listHeap>>
    /\ UNCHANGED <<mazeVars, queueVars, rpnVars>>

LinkedList_addToHead(value) ==
    /\ listPc = "ready"
    /\ \E a \in Allocations(listHeap) :
        Return("addToHead", 0, value, addToHead(list, listHeap, a, value))

LinkedList_addToTail(value) ==
    /\ listPc = "ready"
    /\ \E a \in Allocations(listHeap) :
        Return("addToTail", 0, value, addToTail(list, listHeap, a, value))

LinkedList_addAt(position, value) ==
    /\ listPc = "ready"
    /\ \E a \in Allocations(listHeap) :
        Return("addAt", position, value, addAt(list, listHeap, a, position, value))

LinkedList_getDataAtHead ==
    /\ listPc = "ready"
    /\ Return("getDataAtHead", 0, 0, getDataAtHead(list, listHeap))

LinkedList_getDataAtTail ==
    /\ listPc = "ready"
    /\ Return("getDataAtTail", 0, 0, getDataAtTail(list, listHeap))

LinkedList_getDataAt(position) ==
    /\ listPc = "ready"
    /\ Return("getDataAt", position, 0, getDataAt(list, listHeap, position))

LinkedList_removeDataAtHead ==
    /\ listPc = "ready"
    /\ Return("removeDataAtHead", 0, 0, removeDataAtHead(list, listHeap))

LinkedList_removeDataAtTail ==
    /\ listPc = "ready"
    /\ Return("removeDataAtTail", 0, 0, removeDataAtTail(list, listHeap))

LinkedList_removeDataAtPosition(position) ==
    /\ listPc = "ready"
    /\ Return("removeDataAtPosition", position, 0,
              removeDataAtPosition(list, listHeap, position))

\* LinkedList::LinkedList, in a program that uses nothing else.
ListInit ==
    /\ lines = << >>
    /\ sRowCount = 0
    /\ sColumnCount = 0
    /\ sMaze = << >>
    /\ entrances = << >>
    /\ bot = NoBot
    /\ visitedLocations = << >>
    /\ pc = "start"
    /\ path = << >>
    /\ ticks = 0
    /\ gridReads = {}
    /\ startCell = Vector2D(0, 0)
    /\ topOfEmpty = FALSE
    /\ wild = FALSE
    /\ departures = {}
    /\ removed = << >>
    /\ q1 = [head |-> NULL, tail |-> NULL]
    /\ queueHeap = << >>
    /\ popResult = 0
    /\ added = << >>
    /\ returned = << >>
    /\ list = [head |-> NULL, tail |-> NULL]
    /\ listHeap = << >>
    /\ listPc = "ready"
    /\ listCall = [op |-> "none", position |-> 0, value |-> 0, result |-> FALSE, out |-> 0]
    /\ stack = [mElementCount |-> 0, mMaxElementCount |-> 0, mMemory |-> << >>]
    /\ stackCall = [op |-> "none", input |-> 0, thrown |-> "none", result |-> 0]
    /\ infix = << >>
    /\ postfix = << >>
    /\ rpnPc = "start"
    /\ rpnThrown = "none"
    /\ liveComponents = 0

ListNext ==
    \/ \E value \in ListValues : LinkedList_addToHead(value)
    \/ \E value \in ListValues : LinkedList_addToTail(value)
    \/ \E position \in ListPositions, value \in ListValues : LinkedList_addAt(position, value)
    \/ LinkedList_getDataAtHead
    \/ LinkedList_getDataAtTail
    \/ \E position \in ListPositions : LinkedList_getDataAt(position)
    \/ LinkedList_removeDataAtHead
    \/ LinkedList_removeDataAtTail
    \/ \E position \in ListPositions : LinkedList_removeDataAtPosition(position)

ListSpec == ListInit /\ [][ListNext]_vars

\* The Links met from head along the next pointers, at most fuel of them.
RECURSIVE Chain(_, _, _)
Chain(h, pointer, fuel) ==
    IF pointer = NULL \/ fuel = 0 THEN << >>
    ELSE <<pointer>> \o Chain(h, h[pointer].pNext, fuel - 1)

ListLinks == Chain(listHeap, list.head, MaxListLinks + 1)

\* The elements of the list, from the head.
ListContents == [i \in 1..Len(ListLinks) |-> listHeap[ListLinks[i]].data]

\* The list is a chain of distinct live Links from head to tail.
WellFormed ==
    /\ Len(ListLinks) <= MaxListLinks
    /\ \A i \in 1..Len(ListLinks) : ~listHeap[ListLinks[i]].deleted
    /\ \A i, j \in 1..Len(ListLinks) : ListLinks[i] = ListLinks[j] => i = j
    /\ list.tail = IF ListLinks = << >> THEN NULL ELSE ListLinks[Len(ListLinks)]

\* s without its i-th element
Without(s, i) == SubSeq(s, 1, i - 1) \o SubSeq(s, i + 1, Len(s))

\* s with v before its i-th element
InsertedBefore(s, i, v) == SubSeq(s, 1, i - 1) \o <<v>> \o SubSeq(s, i, Len(s))

\* The call named op has just returned from a well-formed list.
Called(op) == WellFormed /\ listCall'.op = op /\ listPc' = "ready"

\* C21: on a list of n elements getDataAt(p) returns true and assigns the
\* p-th element from the head when 1 <= p <= n, and returns false otherwise.
C21_GetDataAtOneIndexed ==
    [][ Called("getDataAt")
            => LET p == listCall'.position
               IN  IF 1 <= p /\ p <= Len(ListContents)
                   THEN listCall'.result /\ listCall'.out = ListContents[p]
                   ELSE ~listCall'.result ]_vars

\* C22: addAt(p, v) that succeeds on a non-empty list of n elements puts v
\* before the element at position p when 1 <= p <= n; v becomes the head
\* when p < 1 or the list is empty, and the tail when p > n.
C22_AddAtInsertsBefore ==
    [][ (Called("addAt") /\ listCall'.result)
            => LET p == listCall'.position
                   v == listCall'.value
                   n == Len(ListContents)
               IN  ListContents' = IF p < 1 \/ n = 0 THEN <<v>> \o ListContents
                                   ELSE IF p <= n THEN InsertedBefore(ListContents, p, v)
                                   ELSE ListContents \o <<v>> ]_vars

\* C23: removeDataAtTail on a list of n >= 1 elements returns true and
\* leaves the first n - 1 elements, with the Link before the old tail as the
\* tail; on an empty list it returns false.
C23_RemoveDataAtTail ==
    [][ (WellFormed /\ listCall'.op = "removeDataAtTail")
            => /\ listPc' = "ready"
               /\ IF ListContents = << >> THEN ~listCall'.result
                  ELSE /\ listCall'.result
                       /\ ListContents' = SubSeq(ListContents, 1, Len(ListContents) - 1)
                       /\ WellFormed' ]_vars

\* C24: removeDataAtPosition(p) on a list of n elements removes the p-th
\* element and returns true when 1 <= p <= n; otherwise it returns false and
\* the list is as it was.
C24_RemoveDataAtPosition ==
    [][ (WellFormed /\ listCall'.op = "removeDataAtPosition")
            => LET p == listCall'.position
               IN  /\ listPc' = "ready"
                   /\ IF 1 <= p /\ p <= Len(ListContents)
                      THEN listCall'.result /\ ListContents' = Without(ListContents, p)
                      ELSE ~listCall'.result /\ ListContents' = ListContents ]_vars

----------------------------------------------------------------------------
\* rpnCalculator.cpp: the bounded Stack, driven by any sequence of calls.
\*
\* mMemory[i] of the source is mMemory[i + 1] here.  The elements new[]
\* leaves uninitialised are written 0, a value no call pushes; no call reads
\* an element it has not written.

\* Stack::Stack
Stack(maxElementCount) ==
    [mElementCount |-> 0,
     mMaxElementCount |-> maxElementCount,
     mMemory |-> [i \in 1..maxElementCount |-> 0]]

\* The test of push for a Stack with no room left.
PushOverflowsPastFull(s) == s.mElementCount > s.mMaxElementCount

PushOverflows(s) == s.mElementCount >= s.mMaxElementCount

\* The test of top and of pop for a Stack with nothing on it.
Underflows(s) == s.mElementCount <= 0

\* Stack::isFull
Stack_isFull(s) == s.mElementCount >= s.mMaxElementCount

\* Stack::isEmpty
Stack_isEmpty(s) == s.mElementCount <= 0

\* The elements on the Stack, bottom first.
Stack_elements(s) == SubSeq(s.mMemory, 1, s.mElementCount)

\* Stack::top
Stack_top ==
    /\ stackCall.op # "none"
    /\ IF Underflows(stack)
       THEN stackCall' = [op |-> "top", input |-> 0, thrown |-> "underflow_error", result |-> 0]
       ELSE stackCall' = [op |-> "top", input |-> 0, thrown |-> "none",
                          result |-> stack.mMemory[stack.mElementCount]]
    /\ UNCHANGED <<stack, infix, postfix, rpnPc, rpnThrown, liveComponents>>
    /\ UNCHANGED <<mazeVars, queueVars, listVars>>

\* Stack::push
Stack_push(input) ==
    /\ stackCall.op # "none"
    /\ IF PushOverflows(stack)
       THEN /\ stackCall' = [op |-> "push", input |-> input, thrown |-> "overflow_error",
                             result |-> 0]
            /\ stack' = stack
       ELSE /\ stackCall' = [op |-> "push", input |-> input, thrown |-> "none", result |-> 0]
            /\ stack' = [stack EXCEPT !.mMemory[stack.mElementCount + 1] = input,
                                      !.mElementCount = @ + 1]
    /\ UNCHANGED <<infix, postfix, rpnPc, rpnThrown, liveComponents>>
    /\ UNCHANGED <<mazeVars, queueVars, listVars>>

\* Stack::pop
Stack_pop ==
    /\ stackCall.op # "none"
    /\ IF Underflows(stack)
       THEN /\ stackCall' = [op |-> "pop", input |-> 0, thrown |-> "underflow_error",
                             result |-> 0]
            /\ stack' = stack
       ELSE /\ stackCall' = [op |-> "pop", input |-> 0, thrown |-> "none", result |-> 0]
            /\ stack' = [stack EXCEPT !.mElementCount = @ - 1]
    /\ UNCHANGED <<infix, postfix, rpnPc, rpnThrown, liveComponents>>
    /\ UNCHANGED <<mazeVars, queueVars, listVars>>

\* A Stack of any size up to MaxStackSize, just constructed, in a program
\* that uses nothing else.
StackInit ==
    /\ \E maxElementCount \in 0..MaxStackSize : stack = Stack(maxElementCount)
    /\ stackCall = [op |-> "Stack", input |-> 0, thrown |-> "none", result |-> 0]
    /\ infix = << >>
    /\ postfix = << >>
    /\ rpnPc = "start"
    /\ rpnThrown = "none"
    /\ liveComponents = 0
    /\ lines = << >>
    /\ sRowCount = 0
    /\ sColumnCount = 0
    /\ sMaze = << >>
    /\ entrances = << >>
    /\ bot = NoBot
    /\ visitedLocations = << >>
    /\ pc = "start"
    /\ path = << >>
    /\ ticks = 0
    /\ gridReads = {}
    /\ startCell = Vector2D(0, 0)
    /\ topOfEmpty = FALSE
    /\ wild = FALSE
    /\ departures = {}
    /\ removed = << >>
    /\ q1 = [head |-> NULL, tail |-> NULL]
    /\ queueHeap = << >>
    /\ popResult = 0
    /\ added = << >>
    /\ returned = << >>
    /\ list = [head |-> NULL, tail |-> NULL]
    /\ listHeap = << >>
    /\ listPc = "ready"
    /\ listCall = [op |-> "none", position |-> 0, value |-> 0, result |-> FALSE, out |-> 0]

StackNext ==
    \/ Stack_top
    \/ \E input \in StackValues : Stack_push(input)
    \/ Stack_pop

StackSpec == StackInit /\ [][StackNext]_vars

\* C25: a push on a full Stack throws overflow_error, a pop or a top on an
\* empty Stack throws underflow_error, each leaving the element count and the
\* stored elements as they were, and the element count stays within
\* 0 .. mMaxElementCount.
C25_StackErrors ==
    [][ /\ (stackCall'.op = "push" /\ stack.mElementCount = stack.mMaxElementCount)
            => (stackCall'.thrown = "overflow_error" /\ stack' = stack)
        /\ (stackCall'.op \in {"pop", "top"} /\ stack.mElementCount = 0)
            => (stackCall'.thrown = "underflow_error" /\ stack' = stack)
        /\ stack'.mElementCount \in 0..stack'.mMaxElementCount
        /\ stack'.mMaxElementCount = stack.mMaxElementCount ]_vars

C25_Witness ==
    /\ stackCall.op = "push"
    /\ stackCall.thrown = "overflow_error"
    /\ stack.mElementCount = MaxStackSize
    /\ Stack_elements(stack) = <<1, 2, 1>>

----------------------------------------------------------------------------
\* rpnCalculator.cpp: infixToPostFix on any string of at most MaxInfix
\* characters, followed by the leak check of main.
\*
\* A character is a string of length one; the character 0 is NUL.  An
\* ExpressionComponent is a record of its mValue and of its mStack, the
\* sequence of the components on that Stack, bottom first, with the size the
\* Stack was constructed with in mMax.  currentExpression is found from the
\* top level by taking the top of the Stack depth times: a sub-expression is
\* pushed when it is opened and nothing else is pushed on its parent before
\* it is closed.  live counts the members of sExpressionComponentSet.

NUL == "NUL"

\* The stackSize of the top level and of every sub-expression.
ExpressionStackSize == 256

\* ExpressionComponent::ExpressionComponent
ExpressionComponent(value, stackSize) ==
    [mValue |-> value, mStack |-> << >>, mMax |-> stackSize]

\* ExpressionComponent::isExpression
isExpression(component) == ~(Len(component.mStack) <= 0)

isOperator(input) == input \in {"*", "+", "-", "/", "^"}

\* The switch of hasEqualOrGreaterPrecedence falls through from the case of
\* second to the end.
hasEqualOrGreaterPrecedence(first, second) ==
    IF first = second THEN TRUE
    ELSE LET afterPower == IF second = "^" THEN first = "*" ELSE FALSE
             afterTimes == IF second \in {"^", "*"} /\ ~afterPower
                           THEN first = "/" ELSE afterPower
             afterOver  == IF second \in {"^", "*", "/"} /\ ~afterTimes
                           THEN first = "+" ELSE afterTimes
             afterPlus  == IF second \in {"^", "*", "/", "+"} /\ ~afterOver
                           THEN first = "-" ELSE afterOver
         IN  afterPlus

\* expressionRecurse that writes a sub-expression as one character.
RECURSIVE expressionRecurseFlat(_, _)
expressionRecurseFlat(topLevel, output) ==
    IF Len(topLevel.mStack) <= 0 THEN [output |-> output, deleted |-> 0]
    ELSE LET component == topLevel.mStack[Len(topLevel.mStack)]
             rest == expressionRecurseFlat(
                         [topLevel EXCEPT !.mStack = SubSeq(@, 1, Len(@) - 1)],
                         Append(output, component.mValue))
         IN  [output |-> rest.output, deleted |-> 1 + rest.deleted]

\* expressionRecurse: the output with the Stack of topLevel written to it
\* from the top, and the number of components deleted on the way.
RECURSIVE expressionRecurse(_, _)
expressionRecurse(topLevel, output) ==
    IF Len(topLevel.mStack) <= 0 THEN [output |-> output, deleted |-> 0]
    ELSE LET component == topLevel.mStack[Len(topLevel.mStack)]
             inner == IF ~isExpression(component)
                      THEN [output |-> Append(output, component.mValue), deleted |-> 0]
                      ELSE expressionRecurse(component, output)
             rest == expressionRecurse(
                         [topLevel EXCEPT !.mStack = SubSeq(@, 1, Len(@) - 1)],
                         inner.output)
         IN  [output |-> rest.output, deleted |-> inner.deleted + 1 + rest.deleted]

\* currentExpression, depth levels below component.
RECURSIVE CurrentExpression(_, _)
CurrentExpression(component, depth) ==
    IF depth = 0 THEN component
    ELSE CurrentExpression(component.mStack[Len(component.mStack)], depth - 1)

\* component with the expression depth levels below it replaced.
RECURSIVE WithCurrentExpression(_, _, _)
WithCurrentExpression(component, depth, expression) ==
    IF depth = 0 THEN expression
    ELSE [component EXCEPT !.mStack[Len(component.mStack)] =
              WithCurrentExpression(@, depth - 1, expression)]

\* The loop of lines 435-443: the operators on top of the Stack that the
\* current character does not outrank are written and deleted.
RECURSIVE PopOperators(_, _, _)
PopOperators(expression, currentCharacter, output) ==
    IF Len(expression.mStack) > 0
       /\ hasEqualOrGreaterPrecedence(currentCharacter,
                                      expression.mStack[Len(expression.mStack)].mValue)
    THEN LET rest == PopOperators(
                         [expression EXCEPT !.mStack = SubSeq(@, 1, Len(@) - 1)],
                         currentCharacter,
                         Append(output, expression.mStack[Len(expression.mStack)].mValue))
         IN  [rest EXCEPT !.deleted = @ + 1]
    ELSE [expression |-> expression, output |-> output, deleted |-> 0]

\* Stack::push on the Stack of currentExpression, in the conversion c.
PushComponent(c, expression, component) ==
    IF Len(expression.mStack) >= expression.mMax
    THEN [c EXCEPT !.thrown = "overflow_error"]
    ELSE [c EXCEPT !.topLevelExpression =
              WithCurrentExpression(@, c.expressionDepth,
                  [expression EXCEPT !.mStack = Append(@, component)])]

\* One pass of the loop of lines 379-452.
ConvertCharacter(c, currentCharacter) ==
    LET currentExpression == CurrentExpression(c.topLevelExpression, c.expressionDepth)
    IN  CASE currentCharacter \in {" ", "\t", "\n", "\r"} -> c
          [] currentCharacter = "(" ->
                LET pushed == PushComponent([c EXCEPT !.live = @ + 1], currentExpression,
                                            ExpressionComponent(NUL, ExpressionStackSize))
                IN  IF pushed.thrown # "none" THEN pushed
                    ELSE [pushed EXCEPT !.expressionDepth = @ + 1]
          [] currentCharacter = ")" ->
                LET r == expressionRecurse(currentExpression, c.postfix)
                    emptied == [c EXCEPT !.topLevelExpression =
                                   WithCurrentExpression(@, c.expressionDepth,
                                       [currentExpression EXCEPT !.mStack = << >>]),
                                         !.postfix = r.output,
                                         !.live = @ - r.deleted]
                IN  IF c.expressionDepth = 0
                    THEN [emptied EXCEPT !.thrown = "runtime_error"]
                    ELSE [emptied EXCEPT !.expressionDepth = @ - 1]
          [] isOperator(currentCharacter) ->
                LET p == PopOperators(currentExpression, currentCharacter, c.postfix)
                IN  PushComponent([c EXCEPT !.postfix = p.output,
                                            !.live = @ - p.deleted + 1],
                                  p.expression,
                                  ExpressionComponent(currentCharacter, 0))
          [] OTHER -> [c EXCEPT !.postfix = Append(@, currentCharacter)]

\* The loop of lines 379-452 from character iteration on; a throw ends it.
RECURSIVE ConvertFrom(_, _, _)
ConvertFrom(c, input, iteration) ==
    IF iteration > Len(input) \/ c.thrown # "none" THEN c
    ELSE ConvertFrom(ConvertCharacter(c, input[iteration]), input, iteration + 1)

\* infixToPostFix with live components in sExpressionComponentSet before it.
infixToPostFix(input, live) ==
    LET c == ConvertFrom([topLevelExpression |-> ExpressionComponent(NUL, ExpressionStackSize),
                          expressionDepth |-> 0,
                          postfix |-> << >>,
                          live |-> live + 1,
                          thrown |-> "none"],
                         input, 1)
        r == expressionRecurse(c.topLevelExpression, c.postfix)
    IN  IF c.thrown # "none" THEN c
        ELSE [c EXCEPT !.postfix = r.output, !.live = @ - r.deleted - 1]

\* main, line 681: the call and what it returns or throws.
Convert ==
    /\ rpnPc = "start"
    /\ LET c == infixToPostFix(infix, liveComponents)
       IN  /\ rpnThrown' = c.thrown
           /\ liveComponents' = c.live
           /\ IF c.thrown = "none"
              THEN postfix' = c.postfix /\ rpnPc' = "returned"
              ELSE postfix' = postfix /\ rpnPc' = "thrown"
    /\ UNCHANGED <<infix, stack, stackCall>>
    /\ UNCHANGED <<mazeVars, queueVars, listVars>>

\* main, lines 705-720: whatever is left in sExpressionComponentSet is deleted.
CleanUp ==
    /\ rpnPc \in {"returned", "thrown"}
    /\ rpnPc' = IF liveComponents # 0 THEN "leaked" ELSE "clean"
    /\ liveComponents' = 0
    /\ UNCHANGED <<infix, postfix, rpnThrown, stack, stackCall>>
    /\ UNCHANGED <<mazeVars, queueVars, listVars>>

\* The strings of at most MaxInfix characters.
InfixStrings == UNION {[1..n -> InfixCharacters] : n \in 0..MaxInfix}

\* main before the call, with any string as the infix expression.
RpnInit ==
    /\ infix \in InfixStrings
    /\ postfix = << >>
    /\ rpnPc = "start"
    /\ rpnThrown = "none"
    /\ liveComponents = 0
    /\ stack = [mElementCount |-> 0, mMaxElementCount |-> 0, mMemory |-> << >>]
    /\ stackCall = [op |-> "none", input |-> 0, thrown |-> "none", result |-> 0]
    /\ lines = << >>
    /\ sRowCount = 0
    /\ sColumnCount = 0
    /\ sMaze = << >>
    /\ entrances = << >>
    /\ bot = NoBot
    /\ visitedLocations = << >>
    /\ pc = "start"
    /\ path = << >>
    /\ ticks = 0
    /\ gridReads = {}
    /\ startCell = Vector2D(0, 0)
    /\ topOfEmpty = FALSE
    /\ wild = FALSE
    /\ departures = {}
    /\ removed = << >>
    /\ q1 = [head |-> NULL, tail |-> NULL]
    /\ queueHeap = << >>
    /\ popResult = 0
    /\ added = << >>
    /\ returned = << >>
    /\ list = [head |-> NULL, tail |-> NULL]
    /\ listHeap = << >>
    /\ listPc = "ready"
    /\ listCall = [op |-> "none", position |-> 0, value |-> 0, result |-> FALSE, out |-> 0]

RpnNext ==
    \/ Convert
    \/ CleanUp

RpnSpec == RpnInit /\ [][RpnNext]_vars

\* The reference conversion: the shunting-yard algorithm with * and / above
\* + and -, all of them left-associative.
Precedence(operator) == IF operator \in {"*", "/"} THEN 2 ELSE 1

\* The operators the reference writes before pushing operator: those on top
\* of its stack, down to the nearest "(", that bind at least as tightly.
RECURSIVE Outranking(_, _)
Outranking(operators, operator) ==
    IF operators # << >>
       /\ operators[Len(operators)] # "("
       /\ Precedence(operators[Len(operators)]) >= Precedence(operator)
    THEN <<operators[Len(operators)]>>
             \o Outranking(SubSeq(operators, 1, Len(operators) - 1), operator)
    ELSE << >>

\* The operators above the nearest "(", top first.
RECURSIVE AboveOpen(_)
AboveOpen(operators) ==
    IF operators = << >> \/ operators[Len(operators)] = "(" THEN << >>
    ELSE <<operators[Len(operators)]>> \o AboveOpen(SubSeq(operators, 1, Len(operators) - 1))

RECURSIVE ShuntingYard(_, _, _, _)
ShuntingYard(input, i, operators, output) ==
    IF i > Len(input) THEN output \o AboveOpen(operators)
    ELSE LET token == input[i]
         IN  CASE token = "(" -> ShuntingYard(input, i + 1, Append(operators, token), output)
               [] token = ")" ->
                     LET popped == AboveOpen(operators)
                     IN  ShuntingYard(input, i + 1,
                                      SubSeq(operators, 1, Len(operators) - Len(popped) - 1),
                                      output \o popped)
               [] token \in {"+", "-", "*", "/"} ->
                     LET popped == Outranking(operators, token)
                     IN  ShuntingYard(input, i + 1,
                                      Append(SubSeq(operators, 1, Len(operators) - Len(popped)),
                                             token),
                                      output \o popped)
               [] OTHER -> ShuntingYard(input, i + 1, operators, Append(output, token))

Reference(input) == ShuntingYard(input, 1, << >>, << >>)

\* input from character i on is the rest of an infix expression: operands
\* and operators alternate, every ")" closes a "(" and none is left open.
RECURSIVE InfixFrom(_, _, _, _)
InfixFrom(input, i, depth, operandNext) ==
    IF i > Len(input) THEN depth = 0 /\ ~operandNext
    ELSE LET token == input[i]
         IN  CASE token = "(" -> operandNext /\ InfixFrom(input, i + 1, depth + 1, TRUE)
               [] token = ")" -> ~operandNext /\ depth > 0
                                     /\ InfixFrom(input, i + 1, depth - 1, FALSE)
               [] token \in {"+", "-", "*", "/"} ->
                     ~operandNext /\ InfixFrom(input, i + 1, depth, TRUE)
               [] OTHER -> operandNext /\ InfixFrom(input, i + 1, depth, FALSE)

InfixExpression(input) == InfixFrom(input, 1, 0, TRUE)

\* output without its NUL characters
RECURSIVE IgnoringNUL(_)
IgnoringNUL(output) ==
    IF output = << >> THEN << >>
    ELSE IF Head(output) = NUL THEN IgnoringNUL(Tail(output))
    ELSE <<Head(output)>> \o IgnoringNUL(Tail(output))

\* C26: for every balanced infix expression over single-character operands
\* and + - * /, what infixToPostFix returns is, NUL characters aside, the
\* postfix string of the reference shunting-yard conversion.
C26_MatchesShuntingYard ==
    (rpnPc = "returned" /\ InfixExpression(infix))
        => IgnoringNUL(postfix) = Reference(infix)

\* C27: after infixToPostFix has returned normally no ExpressionComponent is
\* alive; components are left alive only when it ended by throwing.
C27_NoLiveComponents ==
    /\ rpnPc = "returned" => liveComponents = 0
    /\ liveComponents # 0 => rpnPc = "thrown"

C27_Witness ==
    /\ rpnPc = "returned"
    /\ infix = <<"(", "a", "+", "(", "b">>
    /\ liveComponents = 0

----------------------------------------------------------------------------
\* The maze solver: History and the moves of the robot.

\* C28: while the engine is advancing within defined behaviour and History
\* is not empty, the cell of the top node of History is the cell the robot
\* is on.
C28_TopIsRobotCell ==
    (pc = "advance" /\ ~wild /\ visitedLocations # << >>)
        => visitedLocations[Len(visitedLocations)].position = bot.position

\* C29: the robot departs from a cell in a direction at most once, whether
\* by a forward move, a branch or the move after a backtrack, and
\* backtracking never selects at a cell a direction already used from it.
C29_DepartsAtMostOnce ==
    [][ /\ (pc = "advance" /\ pc' = "advance" /\ ~wild' /\ bot'.position # bot.position)
            => <<bot.position, bot'.direction>> \notin departures
        /\ (pc = "backtrack" /\ pc' = "advance" /\ ~wild')
            => <<bot'.position, bot'.direction>> \notin departures ]_vars

\* The mark of a departure in direction on node.
Went(node, direction) ==
    CASE direction = "DOWN"  -> node.wentDown
      [] direction = "UP"    -> node.wentUp
      [] direction = "LEFT"  -> node.wentLeft
      [] direction = "RIGHT" -> node.wentRight

\* C30: at a tick where the robot is not on an exit and the cell ahead in its
\* heading is open, the robot moves to that cell and keeps its heading, and
\* exactly one node is pushed on History: the node of the cell it left, with
\* the departure direction marked.
C30_ForwardMove ==
    [][ (/\ pc = "advance"
         /\ ~AtExit
         /\ InGrid(lookAhead)
         /\ ~sMaze[lookAhead.row][lookAhead.column]
         /\ Len(visitedLocations) < MaxHistory)
            => /\ bot'.position = lookAhead
               /\ bot'.direction = bot.direction
               /\ pc' = "advance"
               /\ Len(visitedLocations') = Len(visitedLocations) + 1
               /\ SubSeq(visitedLocations', 1, Len(visitedLocations)) = visitedLocations
               /\ visitedLocations'[Len(visitedLocations')].position = bot.position
               /\ Went(visitedLocations'[Len(visitedLocations')], bot.direction) ]_vars

\* The robot has just moved ahead, past an open perpendicular neighbour of
\* the cell it left.
C30_Witness ==
    /\ pc = "advance"
    /\ ~wild
    /\ visitedLocations # << >>
    /\ LET node == visitedLocations[Len(visitedLocations)]
       IN  /\ Plus(node.position, directionToVector(bot.direction)) = bot.position
           /\ bot.direction = "LEFT"
           /\ node.wentLeft /\ ~node.wentRight /\ ~node.wentUp /\ ~node.wentDown
           /\ node.up \/ node.down

\* The cell p lies in the grid and is not a wall.
OpenAt(p) == InGrid(p) /\ ~sMaze[p.row][p.column]

\* The neighbour of the robot's cell in direction is open.
NeighbourOpen(direction) == OpenAt(Plus(bot.position, directionToVector(direction)))

Opposite(direction) ==
    CASE direction = "DOWN"  -> "UP"
      [] direction = "UP"    -> "DOWN"
      [] direction = "LEFT"  -> "RIGHT"
      [] direction = "RIGHT" -> "LEFT"

\* The two directions perpendicular to direction, in the order they are tried.
Perpendicular(direction) ==
    IF direction \in {"DOWN", "UP"} THEN <<"LEFT", "RIGHT">> ELSE <<"UP", "DOWN">>

\* A tick at which the robot is not on an exit and the cell ahead is read as
\* a wall: it is a wall of the grid, or it lies outside the grid and the
\* read of it has come back as a wall.
BlockedAhead ==
    /\ pc = "advance"
    /\ ~AtExit
    /\ IF InGrid(lookAhead) THEN sMaze[lookAhead.row][lookAhead.column]
                            ELSE pc' # "Undefined"
    /\ Len(visitedLocations) < MaxHistory

\* C31: at a tick where the cell ahead is blocked the robot tries the two
\* perpendicular directions, Left then Right when heading Up or Down and Up
\* then Down when heading Left or Right, takes the first whose neighbour is
\* open, turns to it and moves one cell; it never turns to the opposite of
\* its heading.
C31_BranchOrder ==
    [][ BlockedAhead
            => LET first  == Perpendicular(bot.direction)[1]
                   second == Perpendicular(bot.direction)[2]
                   taken  == IF NeighbourOpen(first) THEN first
                             ELSE IF NeighbourOpen(second) THEN second ELSE "none"
               IN  IF taken = "none" THEN bot' = bot
                   ELSE /\ bot'.direction = taken
                        /\ bot'.position = Plus(bot.position, directionToVector(taken))
                        /\ bot'.direction # Opposite(bot.direction)
                        /\ pc' = "advance" ]_vars

\* The robot has just turned left at a wall, with the right neighbour of
\* the cell it left open as well.
C31_Witness ==
    /\ pc = "advance"
    /\ ~wild
    /\ visitedLocations # << >>
    /\ LET node == visitedLocations[Len(visitedLocations)]
       IN  /\ bot.direction = "LEFT"
           /\ bot.position = Plus(node.position, directionToVector("LEFT"))
           /\ node.wentDown /\ node.wentUp /\ node.wentLeft /\ ~node.wentRight
           /\ node.left /\ node.right

\* The order in which a backtrack step evaluates the directions.
RetryOrder == <<"DOWN", "UP", "LEFT", "RIGHT">>

\* direction qualifies at node when the node below it on History is below:
\* the neighbour is open, the direction is not marked on the node, and the
\* neighbour is not the cell of below.
Qualifies(node, below, direction) ==
    /\ OpenAt(Plus(node.position, directionToVector(direction)))
    /\ ~Went(node, direction)
    /\ below.position # Plus(node.position, directionToVector(direction))

\* The indices in RetryOrder of the directions that qualify.
Qualifying(node, below) == {i \in 1..4 : Qualifies(node, below, RetryOrder[i])}

\* A backtrack step that inspects a node with another node below it.
BacktrackInspects == pc = "backtrack" /\ Len(visitedLocations) >= 2

\* The indices in RetryOrder of the directions open and not marked at node.
Untried(node) ==
    {i \in 1..4 : /\ OpenAt(Plus(node.position, directionToVector(RetryOrder[i])))
                  /\ ~Went(node, RetryOrder[i])}

\* C32: a backtrack step evaluates the directions of the inspected node in
\* the order Down, Up, Left, Right and takes the first that qualifies: the
\* heading becomes that direction, the robot's cell the cell of the node,
\* and the node is pushed back with that direction marked, so History is as
\* long as before the step.  When the node is the only one on History, the
\* direction taken is open and unmarked and at most one such direction
\* before it in the order has been passed over.
C32_BacktrackOrder ==
    [][ /\ (pc = "backtrack" /\ Len(visitedLocations) = 1 /\ pc' = "advance")
            => LET node == visitedLocations[1]
               IN  /\ bot'.position = node.position
                   /\ \E i \in Untried(node) :
                         /\ bot'.direction = RetryOrder[i]
                         /\ Cardinality({j \in Untried(node) : j < i}) <= 1
                   /\ Len(visitedLocations') = 1
                   /\ visitedLocations'[1].position = node.position
                   /\ \A d \in Directions :
                         Went(visitedLocations'[1], d) = (Went(node, d) \/ d = bot'.direction)
        /\ BacktrackInspects
            => LET n     == Len(visitedLocations)
                   node  == visitedLocations[n]
                   below == visitedLocations[n - 1]
                   found == Qualifying(node, below)
               IN  found # {}
                       => LET taken == RetryOrder[CHOOSE i \in found : \A j \in found : i <= j]
                          IN  /\ bot' = [position |-> node.position, direction |-> taken]
                              /\ Len(visitedLocations') = n
                              /\ SubSeq(visitedLocations', 1, n - 1)
                                     = SubSeq(visitedLocations, 1, n - 1)
                              /\ visitedLocations'[n].position = node.position
                              /\ \A d \in Directions :
                                    Went(visitedLocations'[n], d) = (Went(node, d) \/ d = taken)
                              /\ pc' = "advance" ]_vars

\* A backtrack step has just taken a direction at a node where a direction
\* later in the order qualifies as well.
C32_Witness ==
    /\ pc = "advance"
    /\ ~wild
    /\ Len(visitedLocations) >= 2
    /\ LET node  == visitedLocations[Len(visitedLocations)]
           below == visitedLocations[Len(visitedLocations) - 1]
       IN  /\ node.position = bot.position
           /\ Went(node, bot.direction)
           /\ \E i, j \in 1..4 :
                 /\ i < j
                 /\ RetryOrder[i] = bot.direction
                 /\ Qualifies(node, below, RetryOrder[j])

\* A backtrack step has just succeeded: the node on top of History is the
\* node of the robot's cell, pushed back, with another node below it.
Resumed ==
    /\ pc = "advance"
    /\ Len(visitedLocations) >= 2
    /\ visitedLocations[Len(visitedLocations)].position = bot.position

\* C33: a backtrack step takes a direction from the inspected node only if
\* the neighbour in it is open, it is not marked on the node and it does not
\* lead into the cell of the node below; and the move made right after a
\* successful backtrack does not enter the cell of the node below the top.
C33_OscillationGuard ==
    [][ /\ (BacktrackInspects /\ pc' = "advance")
            => Qualifies(visitedLocations[Len(visitedLocations)],
                         visitedLocations[Len(visitedLocations) - 1],
                         bot'.direction)
        /\ (Resumed /\ bot'.position # bot.position /\ pc' # "Undefined")
            => bot'.position # visitedLocations[Len(visitedLocations) - 1].position ]_vars

\* The robot has just made the move that follows a successful backtrack:
\* the two nodes on top of History are of the cell it left, and the cell of
\* the node below them, an open neighbour of that cell in a direction not
\* marked on the node pushed back, is not the cell it entered.
C33_Witness ==
    /\ pc = "advance"
    /\ ~wild
    /\ Len(visitedLocations) >= 3
    /\ LET n      == Len(visitedLocations)
           node   == visitedLocations[n]
           pushed == visitedLocations[n - 1]
           below  == visitedLocations[n - 2]
       IN  /\ node.position = pushed.position
           /\ bot.position = Plus(node.position, directionToVector(bot.direction))
           /\ Went(pushed, bot.direction)
           /\ bot.position # below.position
           /\ \E d \in Directions :
                 /\ below.position = Plus(pushed.position, directionToVector(d))
                 /\ OpenAt(below.position)
                 /\ ~Went(pushed, d)

\* A backtrack step removes the inspected node, above another node, for good.
RemovesNode == BacktrackInspects /\ Len(visitedLocations') < Len(visitedLocations)

\* C34 as stated: a node is removed from History for good only when each of
\* its four directions is closed or already marked on it.
C34_RemovedOnlyWhenExhausted ==
    [][ RemovesNode
            => LET node == visitedLocations[Len(visitedLocations)]
               IN  \A d \in Directions :
                      \/ ~OpenAt(Plus(node.position, directionToVector(d)))
                      \/ Went(node, d) ]_vars

\* C34, amended: a node with another node below it is removed from History
\* for good only when each of its four directions is closed, already marked
\* on it, or leads into the cell of the node below it.
C34_RemovedOnlyWhenNothingQualifies ==
    [][ RemovesNode
            => LET node  == visitedLocations[Len(visitedLocations)]
                   below == visitedLocations[Len(visitedLocations) - 1]
               IN  \A d \in Directions :
                      \/ ~OpenAt(Plus(node.position, directionToVector(d)))
                      \/ Went(node, d)
                      \/ below.position = Plus(node.position, directionToVector(d)) ]_vars

\* A node has been removed for good although one of its directions was open
\* and not marked: the one leading into the cell of the node below it.
C34_Witness ==
    /\ removed # << >>
    /\ ~wild
    /\ \E d \in Directions :
          /\ OpenAt(Plus(removed[1].node.position, directionToVector(d)))
          /\ ~Went(removed[1].node, d)
          /\ removed[1].below = Plus(removed[1].node.position, directionToVector(d))

\* C35: every tick, a backtrack pop included, leaves the robot on its cell
\* or puts it on a 4-neighbour of it.
C35_UnitStep ==
    [][ (pc = "advance" \/ pc = "backtrack")
            => (bot'.position = bot.position \/ Adjacent(bot'.position, bot.position)) ]_vars

\* A backtrack pop has put the robot on the cell of the node it removed,
\* and the stepping back goes on.
C35_Witness ==
    /\ pc = "backtrack"
    /\ ~wild
    /\ removed # << >>
    /\ bot.position = removed[1].node.position
    /\ visitedLocations # << >>
    /\ Adjacent(visitedLocations[Len(visitedLocations)].position, bot.position)

\* C36: in a run that has made no undefined read so far, no pass of the
\* backtracking loop takes the top of an empty History.
C36_NeverTopOfEmpty == [][ ~wild => ~topOfEmpty' ]_vars

\* C37: in every state of the traversal the robot's cell lies inside the
\* grid and is not a wall.
C37_RobotOnOpenCell == Started => OpenAt(bot.position)
\* The pass has run to its end: the read ahead stayed within defined
\* behaviour or came back as a wall, and the push found room.
PassCompleted == pc # "Undefined" /\ pc # "Exhausted"

\* p is the cell q or one of its 4-neighbours.
OnOrNextTo(p, q) == p = q \/ Adjacent(p, q)

\* C38: whenever History is not empty its bottom node holds the start cell
\* and its top node holds the robot's cell or one of its 4-neighbours, so
\* the path emitted at the exit runs from a cell on or next to the exit
\* back to the entrance.
C38_HistorySpansPath ==
    /\ (visitedLocations # << >> /\ PassCompleted)
          => /\ visitedLocations[1].position = startCell
             /\ OnOrNextTo(visitedLocations[Len(visitedLocations)].position,
                           bot.position)
    /\ (pc = "Solved" /\ path # << >>)
          => /\ path[Len(path)] = startCell
             /\ OnOrNextTo(path[1], bot.position)

\* A node has been removed for good: the robot stands on the cell of the
\* removed node, next to the cell of the new top, and History still starts
\* at the entrance.
C38_Witness ==
    /\ pc = "backtrack"
    /\ ~wild
    /\ removed # << >>
    /\ bot.position = removed[1].node.position
    /\ visitedLocations # << >>
    /\ visitedLocations[1].position = startCell
    /\ Adjacent(visitedLocations[Len(visitedLocations)].position, bot.position)

\* C39: after any sequence of LinkedList calls head is NULL exactly when
\* tail is NULL, and when they are not NULL tail is the last Link of the
\* chain from head, its next is NULL, and no Link of the chain has been
\* deleted.
C39_HeadTailConsistent ==
    listPc = "ready"
        => /\ (list.head = NULL) <=> (list.tail = NULL)
           /\ WellFormed
           /\ list.tail # NULL => listHeap[list.tail].pNext = NULL
====
